---- MODULE Spec2Model ----
(***************************************************************************)
(* A model of the Kademlia DHT node of this repository: the in-memory      *)
(* key/value store (MemoryStore), the k-bucket routing table maintained by *)
(* DHT.addNode, the iterative lookup DHT.iterate and the listen loop.      *)
(*                                                                         *)
(* One node (Self) is modelled; the rest of the network is the             *)
(* environment, which chooses every envelope the node receives (Spec).     *)
(* SpecStore is the store on its own, SpecConc the goroutines of the node  *)
(* statement by statement, SpecCodec the codec of the messages as          *)
(* TestNetMsg uses it, and SpecFed the node with one live peer that runs   *)
(* the same listen loop.                                                   *)
(***************************************************************************)
EXTENDS Integers, Sequences, FiniteSets, TLC

(***************************************************************************)
(* Bounds of the model.  B, K and Alpha stand for the program's b = 160,   *)
(* k = 20 and alpha = 3, scaled down so that the state space is finite and *)
(* small; every formula below is stated for whatever value they have.      *)
(***************************************************************************)
B == 3
K == 2
Alpha == 2
MaxClosest == 2
MaxBoot == 1
MaxTime == 4
MaxMsg == 3
MaxMsgId == 2

\* time.Hour, counted in model ticks (one tick is half an hour)
Hour == 2

\* tExpire = 86410 s = 24 h + 10 s: a day and a little more, in ticks
TExpire == 24 * Hour + 1

None == "none"

\* no id: the value of an id-valued local outside the call it belongs to
NoId == -1

Ids == 0 .. (2 ^ B - 1)

\* the node's own id; the XOR metric is invariant under x |-> x XOR c, so
\* fixing one id loses no behaviour
SelfID == 2 ^ B - 1

Buckets == 0 .. (B - 1)

\* the ids of the network the node is run in: k + 1 peers that share the
\* node's farthest bucket, so that a bucket can overflow, and the node's own
Net == (0 .. K) \cup {SelfID}

\* the keys and values the store is exercised with
StoreKeys == {0, 1}
Values == {"v1", "v2"}
Instants == 0 .. MaxTime

VARIABLES
  \* MemoryStore
  data, refreshMap, expireMap,
  \* the clock read by time.Now()
  now,
  \* history of the store: what the last Store of a key was given, which keys
  \* have been stored and neither deleted nor swept at or after their
  \* expiration, and the last store operation with the state it started from
  msPut, msLive, msLast,
  \* hashTable.RoutingTable: one sequence of node ids per bucket, head first
  rt,
  \* what getBucketIndexFromDifferingBit returns for two equal ids
  undefIdx,
  \* history of the routing table: the last addNode call, with what it found
  lastAdd,
  \* where the caller of Bootstrap / Store / Get / iterate stands
  pc,
  \* Bootstrap: the bootstrap nodes still to be added
  bootPending,
  \* iterate: its parameters t, target, data
  itT, itTarget, itData,
  \* iterate: sl.Nodes, contacted, closestNode, the queries still to send,
  \* the channels still to be read (by the node each query went to)
  sl, contacted, closestNode, queries, chans,
  \* iterate: responseData.Closest of the result being merged, and how many
  \* of its nodes have been passed to addNode
  mergeList, mergeIdx,
  \* what the last call of iterate returned, and the receivers of the
  \* QueryStore messages it sent
  itRet, storeSent,
  \* history of iterate: the outcome of the sendMessage, or the result read
  \* from a channel, that the step just taken dealt with
  lastResult,
  \* the envelopes the listen loop sent while it handled its last message,
  \* and that message (history)
  reply, lastMsg,
  \* DHT.msgCounter, and the envelope ids sendMessage was given from it, in
  \* the order of the calls (history)
  msgCounter, sentIds,
  \* the goroutine that holds dht.ht.mutex, and where each goroutine stands
  \* with its locals
  mutex, thr,
  \* TestNetMsg: the message, the buffer the frame is written to, and what
  \* deserializeMessage returned
  netMsg, conn, deserialized,
  \* the peer of a federation of two: its id, its routing table, its store,
  \* the messages on their way to it and the responses on their way back
  peerId, peerRt, peerData, inbox, outbox,
  \* what the node is used for in a behaviour: to serve the queries of the
  \* network ("serve") or to make calls of its own ("lookup")
  workload

msVars == <<data, refreshMap, expireMap, now, msPut, msLive, msLast>>

rtVars == <<rt, undefIdx, lastAdd>>

idVars == <<msgCounter, sentIds>>

listenVars == <<reply, lastMsg>>

concVars == <<mutex, thr>>

codecVars == <<netMsg, conn, deserialized>>

fedVars == <<peerId, peerRt, peerData, inbox, outbox>>

itVars == <<pc, bootPending, itT, itTarget, itData, sl, contacted, closestNode,
            queries, chans, mergeList, mergeIdx, itRet, storeSent, lastResult>>

\* everything but the store
dhtVars == <<rtVars, idVars, itVars, listenVars, concVars, codecVars, fedVars,
            workload>>

vars == <<data, refreshMap, expireMap, now, msPut, msLive, msLast,
          rt, undefIdx, lastAdd,
          pc, bootPending, itT, itTarget, itData, sl, contacted, closestNode,
          queries, chans, mergeList, mergeIdx, itRet, storeSent, lastResult,
          reply, lastMsg, msgCounter, sentIds, mutex, thr, netMsg,
          conn, deserialized, peerId, peerRt, peerData, inbox, outbox, workload>>

(***************************************************************************)
(* Maps (Go map[string]T) are functions whose DOMAIN is the set of keys    *)
(* present.                                                                *)
(***************************************************************************)
MapSet(m, k, v) == [x \in (DOMAIN m) \cup {k} |-> IF x = k THEN v ELSE m[x]]
MapDelete(m, k) == [x \in (DOMAIN m) \ {k} |-> m[x]]
EmptyMap == [x \in {} |-> None]

(***************************************************************************)
(* MemoryStore                                                             *)
(***************************************************************************)

\* a clock comparison that also holds at the instant itself
AfterOrAt(t, v) == t >= v

\* time.Now().After(v)
After(t, v) == t > v

\* a sweep with the comparison turned around: v.After(time.Now())
ExpiredKeysReversed(em, t) == {k \in DOMAIN em : After(em[k], t)}

\* the keys ExpireKeys deletes: those of expireMap whose instant the clock
\* is after
ExpiredKeys(em, t) == {k \in DOMAIN em : After(t, em[k])}

\* a refresh instant two hours ahead
RefreshInstantLate(t) == t + 2 * Hour

\* the instant Store writes into refreshMap
RefreshInstant(t) == t + Hour

StoreInit ==
  /\ data = EmptyMap
  /\ refreshMap = EmptyMap
  /\ expireMap = EmptyMap
  /\ now = 0
  /\ msPut = [k \in StoreKeys |-> None]
  /\ msLive = {}
  /\ msLast = [op |-> "Init"]

\* MemoryStore.Store
Store(key, value, expiration, publisher) ==
  /\ refreshMap' = MapSet(refreshMap, key, RefreshInstant(now))
  /\ expireMap' = MapSet(expireMap, key, expiration)
  /\ data' = MapSet(data, key, value)

\* MemoryStore.Retrieve
Retrieve(key) ==
  [exists |-> key \in DOMAIN data,
   value |-> IF key \in DOMAIN data THEN data[key] ELSE None]

\* the history variables are kept by the operations of the store's own
\* specification
msHist == <<msPut, msLive, msLast>>

MsStore(key, value, expiration, publisher) ==
  /\ Store(key, value, expiration, publisher)
  /\ msPut' = [msPut EXCEPT ![key] =
                 [value |-> value, expiration |-> expiration, at |-> now]]
  /\ msLive' = msLive \cup {key}
  /\ msLast' = [op |-> "Store", key |-> key, at |-> now]
  /\ UNCHANGED <<now, dhtVars>>

MsRetrieve(key) ==
  /\ msLast' = [op |-> "Retrieve", key |-> key, result |-> Retrieve(key)]
  /\ UNCHANGED <<data, refreshMap, expireMap, now, msPut, msLive, dhtVars>>

MsDelete(key) ==
  /\ data' = MapDelete(data, key)
  /\ msLive' = msLive \ {key}
  /\ msLast' = [op |-> "Delete", key |-> key]
  /\ UNCHANGED <<refreshMap, expireMap, now, msPut, dhtVars>>

\* refreshMap[k] of a key without an entry is Go's zero time.Time, which
\* every instant of the clock is after
RefreshDue(k) == IF k \in DOMAIN refreshMap THEN After(now, refreshMap[k]) ELSE TRUE

MsGetAllKeysForRefresh ==
  /\ msLast' = [op |-> "GetAllKeysForRefresh",
                keys |-> {k \in DOMAIN data : RefreshDue(k)}]
  /\ UNCHANGED <<data, refreshMap, expireMap, now, msPut, msLive, dhtVars>>

MsExpireKeys ==
  LET gone == ExpiredKeys(expireMap, now) IN
  /\ refreshMap' = [x \in (DOMAIN refreshMap) \ gone |-> refreshMap[x]]
  /\ expireMap' = [x \in (DOMAIN expireMap) \ gone |-> expireMap[x]]
  /\ data' = [x \in (DOMAIN data) \ gone |-> data[x]]
  /\ msLive' = {k \in msLive : now < msPut[k].expiration}
  /\ msLast' = [op |-> "ExpireKeys", at |-> now,
                data |-> data, expireMap |-> expireMap]
  /\ UNCHANGED <<now, msPut, dhtVars>>

\* the clock advances
Tick ==
  /\ now < MaxTime
  /\ now' = now + 1
  /\ UNCHANGED <<data, refreshMap, expireMap, msPut, msLive, msLast, dhtVars>>


(***************************************************************************)
(* Identifiers and the XOR metric                                          *)
(***************************************************************************)

RECURSIVE XorBits(_, _, _)
XorBits(a, b, n) ==
  IF n = 0 THEN 0
  ELSE (((a % 2) + (b % 2)) % 2) + 2 * XorBits(a \div 2, b \div 2, n - 1)

XorTable == [a \in Ids |-> [b \in Ids |-> XorBits(a, b, B)]]

\* distance(a, b): the XOR of the two ids, read as an unsigned integer
Distance(a, b) == XorTable[a][b]

\* the position of the highest set bit of x > 0, the lowest bit being 0
HighBit(x) == CHOOSE i \in Buckets : 2 ^ i <= x /\ x < 2 ^ (i + 1)

\* the bucket of id2 in the table of id1: the highest bit the two differ in;
\* for equal ids there is no such bit and the result is whatever the
\* function happens to return (undefIdx)
getBucketIndexFromDifferingBit(id1, id2) ==
  IF id1 = id2 THEN undefIdx ELSE HighBit(Distance(id1, id2))

(***************************************************************************)
(* Sequences                                                               *)
(***************************************************************************)

Min(a, b) == IF a <= b THEN a ELSE b

Contains(seq, id) == \E i \in 1 .. Len(seq) : seq[i] = id

Take(seq, n) == SubSeq(seq, 1, Min(n, Len(seq)))

Without(seq, id) == SelectSeq(seq, LAMBDA x : x # id)

RECURSIVE Flatten(_)
Flatten(seqs) == IF seqs = <<>> THEN <<>> ELSE Head(seqs) \o Flatten(Tail(seqs))

SeqsUpTo(S, n) == UNION {[1 .. m -> S] : m \in 0 .. n}

(***************************************************************************)
(* shortList                                                               *)
(***************************************************************************)

RECURSIVE AppendUniqueNetworkNodes(_, _)
AppendUniqueNetworkNodes(nodes, more) ==
  IF more = <<>> THEN nodes
  ELSE AppendUniqueNetworkNodes(
         IF Contains(nodes, Head(more)) THEN nodes ELSE Append(nodes, Head(more)),
         Tail(more))

RemoveNode(nodes, id) == Without(nodes, id)

\* insert x into a sequence sorted by distance to target, after the elements
\* at the same distance
RECURSIVE InsertByDistance(_, _, _)
InsertByDistance(sorted, x, target) ==
  IF sorted = <<>> THEN <<x>>
  ELSE IF Distance(x, target) < Distance(Head(sorted), target)
         THEN <<x>> \o sorted
         ELSE <<Head(sorted)>> \o InsertByDistance(Tail(sorted), x, target)

RECURSIVE SortByDistance(_, _)
SortByDistance(nodes, target) ==
  IF nodes = <<>> THEN <<>>
  ELSE InsertByDistance(SortByDistance(SubSeq(nodes, 1, Len(nodes) - 1), target),
                        nodes[Len(nodes)], target)

(***************************************************************************)
(* hashTable                                                               *)
(***************************************************************************)

\* the buckets at distance r from bucket i, the lower one first
Ring(i, r) ==
  IF r = 0 THEN <<i>>
  ELSE (IF i - r \in Buckets THEN <<i - r>> ELSE <<>>)
       \o (IF i + r \in Buckets THEN <<i + r>> ELSE <<>>)

\* the contacts of bucket i and of the buckets around it, up to distance r
Gathered(table, i, r) ==
  Flatten([d \in 1 .. (r + 1) |->
             Flatten([j \in 1 .. Len(Ring(i, d - 1)) |-> table[Ring(i, d - 1)[j]]])])

\* closest(target, count, exclude): gather from the target's bucket outwards
\* until count contacts are gathered or every bucket was visited, sort by
\* distance to target, drop the excluded ids, truncate to count
getClosestContactsOf(self, table, num, target, ignoredNodes) ==
  LET i == getBucketIndexFromDifferingBit(self, target)
      enough == {r \in 0 .. (B - 1) : Len(Gathered(table, i, r)) >= num}
      radius == IF enough = {} THEN B - 1
                ELSE CHOOSE r \in enough : \A q \in enough : r <= q
      sorted == SortByDistance(Gathered(table, i, radius), target)
  IN Take(SelectSeq(sorted, LAMBDA x : x \notin ignoredNodes), num)

getClosestContacts(table, num, target, ignoredNodes) ==
  getClosestContactsOf(SelfID, table, num, target, ignoredNodes)

\* removal of a contact, by id, from the bucket of its index
removeNode(table, id) ==
  LET index == getBucketIndexFromDifferingBit(SelfID, id)
  IN [table EXCEPT ![index] = Without(table[index], id)]

(***************************************************************************)
(* The transport: what sendMessage and a response channel can deliver      *)
(***************************************************************************)

\* the liveness Ping of addNode: sendMessage fails, a response arrives on
\* the channel, or time.After(tPingMax) fires first
PingOutcomes == {"senderr", "pong", "timeout"}

\* sendMessage of a query: a channel is returned, or the error "timed out
\* waiting for ack", or another error
SendOutcomes == {"ok", "timed out waiting for ack", "error"}

ClosestLists == SeqsUpTo(Net, MaxClosest)

\* the Error of an envelope a channel delivers, when it is not nil: the
\* error a peer put into its response, or the failure of a request whose
\* response did not arrive in time
RemoteError == "remote error"
TimedOut == "timed out waiting for ack"
Errors == {RemoteError, TimedOut}

\* the closest lists an envelope with Error set may carry
ErrorClosest == {<<>>} \cup {<<n>> : n \in Net}

\* the envelopes a response channel can deliver for a query of iterate
\* kind t: Error set (Receiver is read), a value (FindValue only), or a
\* closest list
Results(t) ==
  [Error : Errors, Receiver : Net, Value : {None}, Closest : ErrorClosest]
  \cup [Error : {None}, Receiver : {SelfID}, Value : {None}, Closest : ClosestLists]
  \cup (IF t = "iterateFindValue"
          THEN [Error : {None}, Receiver : {SelfID}, Value : Values, Closest : {<<>>}]
          ELSE {})

\* n times sendMessage(m, dht.msgCounter, ...) followed by dht.msgCounter++,
\* by one thread
Issue(n) ==
  /\ msgCounter + n <= MaxMsg
  /\ sentIds' = sentIds \o [i \in 1 .. n |-> msgCounter + i - 1]
  /\ msgCounter' = msgCounter + n


(***************************************************************************)
(* DHT.addNode                                                             *)
(***************************************************************************)

\* the routing table of the node self after addNode(node), the liveness Ping
\* of a full bucket ending as ping says
addNodeOf(self, table, node, ping) ==
  LET index == getBucketIndexFromDifferingBit(self, node)
      bucket == table[index]
  IN IF Contains(bucket, node) THEN table
     ELSE IF Len(bucket) = K
       THEN IF ping = "pong" THEN table
            ELSE [table EXCEPT ![index] = Tail(Append(bucket, node))]
       ELSE [table EXCEPT ![index] = Append(bucket, node)]

\* an insertion into a full bucket that keeps the head
addNodeKeepHead(table, node, ping) ==
  LET index == getBucketIndexFromDifferingBit(SelfID, node)
      bucket == table[index]
  IN IF Contains(bucket, node) THEN table
     ELSE IF Len(bucket) = K
       THEN IF ping = "pong" THEN table
            ELSE [table EXCEPT ![index] = Append(bucket, node)]
       ELSE [table EXCEPT ![index] = Append(bucket, node)]

\* an insertion that gives up on a full bucket whose head does not answer
addNodeNoEvict(table, node, ping) == addNodeKeepHead(table, node, "pong")

addNode(table, node, ping) == addNodeOf(SelfID, table, node, ping)

\* the Ping is sent only when the node is new and its bucket is full
PingChoices(table, node) ==
  LET bucket == table[getBucketIndexFromDifferingBit(SelfID, node)]
  IN IF ~Contains(bucket, node) /\ Len(bucket) = K THEN PingOutcomes ELSE {None}

\* one call of addNode, under the routing table's mutex from entry to return
AddNodeCall(node) ==
  \E ping \in PingChoices(rt, node) :
    LET index == getBucketIndexFromDifferingBit(SelfID, node) IN
    /\ rt' = addNode(rt, node, ping)
    /\ lastAdd' = [called |-> TRUE, node |-> node, index |-> index,
                   ping |-> ping, bucket |-> rt[index]]
    /\ IF ping = None THEN UNCHANGED idVars ELSE Issue(1)
    /\ UNCHANGED undefIdx

NoAdd == [called |-> FALSE]

\* the node is making calls of its own / is serving the network's queries
Calling ==
  /\ workload \in {"lookup", "federation"}
  /\ UNCHANGED <<workload, concVars, codecVars, fedVars>>

Serving == workload = "serve" /\ UNCHANGED <<workload, concVars, codecVars, fedVars>>

\* the peers of the node are the network at large: any outcome of a send, any
\* result on a channel
Alone == workload = "lookup" /\ Calling

(***************************************************************************)
(* DHT.iterate                                                             *)
(***************************************************************************)

\* of the nodes given, in order, those not yet contacted
RECURSIVE Uncontacted(_, _)
Uncontacted(nodes, cont) ==
  IF nodes = <<>> THEN <<>>
  ELSE IF Head(nodes) \in cont THEN Uncontacted(Tail(nodes), cont)
       ELSE <<Head(nodes)>> \o Uncontacted(Tail(nodes), cont \cup {Head(nodes)})

\* the receivers of the queries of one round: the uncontacted among the
\* first alpha nodes of the shortlist
SelectQueries(nodes, cont) == Uncontacted(Take(nodes, Alpha), cont)

ToSet(seq) == {seq[i] : i \in 1 .. Len(seq)}

\* the shortlist at the end of a round, left as the merges built it
RoundShortlistUnsorted(nodes, target) == nodes

\* the shortlist at the end of a round: sort.Sort(sl)
RoundShortlist(nodes, target) == SortByDistance(nodes, target)

\* what iterate returns as closest when a FindNode walk ends
FindNodeResult(nodes) == nodes

\* receivers that leave out the closest node
StoreReceiversButClosest(nodes) == Tail(Take(nodes, K + 1))

\* the receivers of the QueryStore messages of a Store walk
StoreReceivers(nodes) == Take(nodes, K)

\* the QueryStore messages of a Store walk, one for each receiver
StoreQueries(nodes, key, d) ==
  [i \in 1 .. Len(StoreReceivers(nodes)) |->
     [Type |-> "QueryStore", Receiver |-> StoreReceivers(nodes)[i],
      Key |-> key, Data |-> d]]

Returned(t, value, closest) == [t |-> t, value |-> value, closest |-> closest]

\* no call of iterate has returned since the last one began
NoReturn == [t |-> None]

\* the step just taken dealt with no sendMessage outcome and no result
NoResult == [handled |-> FALSE, ended |-> FALSE]

\* the step just taken ended the walk with the shortlist final
Ended(final) == [handled |-> FALSE, ended |-> TRUE, final |-> final]

\* the locals of iterate, when no call is in progress
IterLocalsIdle ==
  /\ sl' = <<>>
  /\ contacted' = {}
  /\ closestNode' = NoId
  /\ queries' = <<>>
  /\ chans' = <<>>
  /\ mergeList' = <<>>
  /\ mergeIdx' = 0

AfterSelect(q) == IF q = <<>> THEN "merge" ELSE "send"

\* the call of iterate(t, target, data)
IterateCalled(t, target, d) ==
  /\ pc' = "begin"
  /\ itT' = t
  /\ itTarget' = target
  /\ itData' = d
  /\ storeSent' = <<>>
  /\ itRet' = NoReturn
  /\ lastResult' = NoResult

\* lines 144-200: the seed of the shortlist and the queries of the first round
IterBegin ==
  /\ Calling
  /\ pc = "begin"
  /\ \E nodes \in {getClosestContacts(rt, Alpha, itTarget, {})} :
     IF nodes = <<>>
       THEN /\ pc' = "idle"
            /\ itRet' = Returned(itT, None, <<>>)
            /\ IterLocalsIdle
       ELSE /\ sl' = nodes
            /\ closestNode' = nodes[1]
            /\ queries' = SelectQueries(nodes, {})
            /\ contacted' = ToSet(SelectQueries(nodes, {}))
            /\ pc' = AfterSelect(SelectQueries(nodes, {}))
            /\ UNCHANGED <<chans, mergeList, mergeIdx, itRet>>
  /\ lastResult' = NoResult
  /\ UNCHANGED <<bootPending, itT, itTarget, itData, storeSent>>
  /\ UNCHANGED <<msVars, rtVars, idVars, listenVars>>

\* lines 204-218: sendMessage of the next query, which ends as out says
IterSendTo(out) ==
  /\ pc = "send"
  /\ queries # <<>>
  /\ Issue(1)
  /\ chans' = IF out = "ok" THEN Append(chans, Head(queries)) ELSE chans
  /\ IF out = TimedOut
       THEN /\ rt' = removeNode(rt, Head(queries))
            /\ lastAdd' = NoAdd
            /\ UNCHANGED undefIdx
       ELSE UNCHANGED rtVars
  /\ queries' = Tail(queries)
  /\ pc' = AfterSelect(Tail(queries))
  /\ lastResult' = [handled |-> TRUE, ended |-> FALSE, via |-> "sendMessage",
                    peer |-> Head(queries),
                    Error |-> IF out = "ok" THEN None ELSE out]
  /\ UNCHANGED <<bootPending, itT, itTarget, itData, sl, contacted, closestNode,
                 mergeList, mergeIdx, itRet, storeSent>>
  /\ UNCHANGED <<msVars, listenVars>>

IterSend ==
  /\ Alone
  /\ \E out \in SendOutcomes : IterSendTo(out)

\* the closest of the nodes of the shortlist other than peer, if there is one
ClosestOther(nodes, peer, target) ==
  Take(SortByDistance(Without(nodes, peer), target), 1)

\* lines 220-257: the result read from the next channel; a result with Error
\* set removes result.Receiver from the shortlist, a FindValue result with a
\* value ends the call, any other result is merged
IterResultOf(result) ==
  /\ pc = "merge"
  /\ chans # <<>>
  /\ IF result.Error # None
       THEN /\ sl' = RemoveNode(sl, result.Receiver)
            /\ chans' = Tail(chans)
            /\ UNCHANGED <<pc, contacted, closestNode, queries, mergeList,
                           mergeIdx, itRet>>
       ELSE IF result.Value # None
         THEN /\ pc' = "idle"
              /\ itRet' = Returned(itT, result.Value, <<>>)
              /\ IterLocalsIdle
         ELSE /\ pc' = "add"
              /\ mergeList' = result.Closest
              /\ mergeIdx' = 0
              /\ UNCHANGED <<sl, contacted, closestNode, queries, chans, itRet>>
  /\ lastResult' = [handled |-> TRUE, ended |-> FALSE, via |-> "channel",
                    peer |-> Head(chans),
                    Error |-> result.Error, Receiver |-> result.Receiver,
                    Value |-> result.Value, Closest |-> result.Closest,
                    sl |-> sl, rt |-> rt,
                    other |-> ClosestOther(sl, Head(chans), itTarget)]
  /\ UNCHANGED <<bootPending, itT, itTarget, itData, storeSent>>
  /\ UNCHANGED <<msVars, rtVars, idVars, listenVars>>

IterResult ==
  /\ Alone
  /\ \E result \in Results(itT) : IterResultOf(result)

\* lines 235-237 (247-249, 253-255): addNode of the next node of Closest
IterAddNode ==
  /\ Calling
  /\ pc = "add"
  /\ mergeIdx < Len(mergeList)
  /\ AddNodeCall(mergeList[mergeIdx + 1])
  /\ mergeIdx' = mergeIdx + 1
  /\ lastResult' = NoResult
  /\ UNCHANGED <<pc, bootPending, itT, itTarget, itData, sl, contacted,
                 closestNode, queries, chans, mergeList, itRet, storeSent>>
  /\ UNCHANGED <<msVars, listenVars>>

\* line 238 (250, 256): sl.AppendUniqueNetworkNodes(responseData.Closest)
IterAppend ==
  /\ Calling
  /\ pc = "add"
  /\ mergeIdx = Len(mergeList)
  /\ sl' = AppendUniqueNetworkNodes(sl, mergeList)
  /\ chans' = Tail(chans)
  /\ mergeList' = <<>>
  /\ mergeIdx' = 0
  /\ pc' = "merge"
  /\ lastResult' = NoResult
  /\ UNCHANGED <<bootPending, itT, itTarget, itData, contacted, closestNode,
                 queries, itRet, storeSent>>
  /\ UNCHANGED <<msVars, rtVars, idVars, listenVars>>

\* lines 260-291 and 159-200: the end of a round.  sl.Nodes[0] of an empty
\* shortlist is an index out of range: the program panics.
IterRoundEndStep ==
  /\ pc = "merge"
  /\ chans = <<>>
  /\ LET nodes == RoundShortlist(sl, itTarget) IN
     IF nodes = <<>>
       THEN /\ pc' = "panic"
            /\ sl' = nodes
            /\ UNCHANGED <<contacted, closestNode, queries, chans, mergeList,
                           mergeIdx, itRet, storeSent, idVars>>
       ELSE IF nodes[1] = closestNode
         THEN /\ pc' = "idle"
              /\ itRet' = IF itT = "iterateFindNode"
                            THEN Returned(itT, None, FindNodeResult(nodes))
                          ELSE IF itT = "iterateFindValue"
                            THEN Returned(itT, None, nodes)
                          ELSE Returned(itT, None, <<>>)
              /\ IF itT = "iterateStore"
                   THEN /\ storeSent' = StoreQueries(nodes, itTarget, itData)
                        /\ Issue(Len(StoreReceivers(nodes)))
                   ELSE UNCHANGED <<storeSent, idVars>>
              /\ IterLocalsIdle
         ELSE /\ sl' = nodes
              /\ closestNode' = nodes[1]
              /\ queries' = SelectQueries(nodes, contacted)
              /\ contacted' = contacted \cup ToSet(SelectQueries(nodes, contacted))
              /\ pc' = AfterSelect(SelectQueries(nodes, contacted))
              /\ UNCHANGED <<chans, mergeList, mergeIdx, itRet, storeSent, idVars>>
  /\ lastResult' = IF pc' = "idle" THEN Ended(RoundShortlist(sl, itTarget))
                    ELSE NoResult
  /\ UNCHANGED <<bootPending, itT, itTarget, itData>>
  /\ UNCHANGED <<msVars, rtVars, listenVars>>

IterRoundEnd ==
  /\ Alone
  /\ IterRoundEndStep

(***************************************************************************)
(* The public operations                                                   *)
(***************************************************************************)

\* the key of a value: its content hash
KeyOf(d) == IF d = "v1" THEN 0 ELSE 1

\* Bootstrap, lines 123-128: the bootstrap nodes of the options are taken up
Bootstrap(nodes) ==
  /\ Calling
  /\ pc = "idle"
  /\ pc' = "bootstrap"
  /\ bootPending' = nodes
  /\ lastResult' = NoResult
  /\ UNCHANGED <<itT, itTarget, itData, sl, contacted, closestNode, queries,
                 chans, mergeList, mergeIdx, itRet, storeSent>>
  /\ UNCHANGED <<msVars, rtVars, idVars, listenVars>>

\* Bootstrap, lines 124-127: addNode of the next bootstrap node
BootstrapAddNode ==
  /\ Calling
  /\ pc = "bootstrap"
  /\ bootPending # <<>>
  /\ AddNodeCall(Head(bootPending))
  /\ bootPending' = Tail(bootPending)
  /\ UNCHANGED <<pc, itT, itTarget, itData, sl, contacted, closestNode, queries,
                 chans, mergeList, mergeIdx, itRet, storeSent, lastResult>>
  /\ UNCHANGED <<msVars, listenVars>>

\* Bootstrap, line 129: iterate(iterateFindNode, Self.ID, nil)
BootstrapIterate ==
  /\ Calling
  /\ pc = "bootstrap"
  /\ bootPending = <<>>
  /\ IterateCalled("iterateFindNode", SelfID, None)
  /\ UNCHANGED <<bootPending, sl, contacted, closestNode, queries, chans,
                 mergeList, mergeIdx>>
  /\ UNCHANGED <<msVars, rtVars, idVars, listenVars>>

\* DHT.Store, lines 70-74: the value is stored locally as its publisher's,
\* then iterate(iterateStore, key, data)
DhtStore(d) ==
  /\ Calling
  /\ pc = "idle"
  /\ Store(KeyOf(d), d, now + TExpire, TRUE)
  /\ IterateCalled("iterateStore", KeyOf(d), d)
  /\ UNCHANGED <<bootPending, sl, contacted, closestNode, queries, chans,
                 mergeList, mergeIdx>>
  /\ UNCHANGED <<now, msHist, rtVars, idVars, listenVars>>

\* DHT.Get, lines 83-97: the local store first, iterate(iterateFindValue) on
\* a miss
DhtGet(key) ==
  /\ Calling
  /\ pc = "idle"
  /\ IF Retrieve(key).exists
       THEN UNCHANGED itVars
       ELSE /\ IterateCalled("iterateFindValue", key, None)
            /\ UNCHANGED <<bootPending, sl, contacted, closestNode, queries,
                           chans, mergeList, mergeIdx>>
  /\ UNCHANGED <<msVars, rtVars, idVars, listenVars>>

(***************************************************************************)
(* DHT.listen                                                              *)
(***************************************************************************)

\* the envelope ids of the messages the node receives
MsgIds == 1 .. MaxMsgId

\* the targets of the queries the node receives
Targets == StoreKeys \cup {SelfID}

\* the messages getMessage can deliver to the listen loop
QueriesFindNode ==
  [Type : {"QueryFindNode"}, Sender : Net, ID : MsgIds, Target : Targets]
QueriesFindValue ==
  [Type : {"QueryFindValue"}, Sender : Net, ID : MsgIds, Target : StoreKeys]
QueriesStore ==
  {[Type |-> "QueryStore", Sender |-> sender, ID |-> id, Key |-> KeyOf(d),
    Data |-> d] : sender \in Net, id \in MsgIds, d \in Values}
QueriesPing == [Type : {"QueryPing"}, Sender : Net, ID : MsgIds]

\* &message{IsResponse: true} with its fields set; ID is the zero value
\* where the code does not set it
Envelope(type, receiver, id, closest, value) ==
  [IsResponse |-> TRUE, Type |-> type, Sender |-> SelfID, Receiver |-> receiver,
   ID |-> id, Error |-> None, Closest |-> closest, Value |-> value]

\* sendMessage(msg, id, expectResponse): the envelope that is put on the
\* wire carries the id given
sendMessage(msg, id) == [msg EXCEPT !.ID = id]

\* lines 355-361
ResponseFindNode(msg, closest) ==
  Envelope("ResponseFindNode", msg.Sender, 0, closest, None)

\* lines 367-379
ResponseFindValue(msg, found, closest) ==
  IF found.exists
    THEN Envelope("ResponseFindValue", msg.Sender, msg.ID, <<>>, found.value)
    ELSE Envelope("ResponseFindValue", msg.Sender, msg.ID, closest, None)

\* a Ping response addressed to the node itself
ResponsePingToSelf(msg) == Envelope("ResponsePing", SelfID, 0, <<>>, None)

\* lines 386-389
ResponsePing(msg) == Envelope("ResponsePing", msg.Sender, 0, <<>>, None)

Handled(msg) == [handled |-> TRUE, msg |-> msg]

\* the listen loop has handled no message yet
NoMsg == [handled |-> FALSE]

\* lines 351-362
ListenQueryFindNode(msg) ==
  /\ Serving
  /\ pc # "panic"
  /\ AddNodeCall(msg.Sender)
  /\ reply' = <<sendMessage(
                  ResponseFindNode(msg, getClosestContacts(rt', K, msg.Target,
                                                          {msg.Sender})),
                  msg.ID)>>
  /\ lastMsg' = Handled(msg)
  /\ UNCHANGED <<msVars, itVars>>

\* lines 363-380
ListenQueryFindValue(msg) ==
  /\ Serving
  /\ pc # "panic"
  /\ AddNodeCall(msg.Sender)
  /\ reply' = <<sendMessage(
                  ResponseFindValue(msg, Retrieve(msg.Target),
                                    getClosestContacts(rt', K, msg.Target,
                                                       {msg.Sender})),
                  msg.ID)>>
  /\ lastMsg' = Handled(msg)
  /\ UNCHANGED <<msVars, itVars>>

\* lines 381-384
ListenQueryStore(msg) ==
  /\ Serving
  /\ pc # "panic"
  /\ AddNodeCall(msg.Sender)
  /\ Store(msg.Key, msg.Data, now + TExpire, FALSE)
  /\ reply' = <<>>
  /\ lastMsg' = Handled(msg)
  /\ UNCHANGED <<now, msHist, itVars>>

\* lines 385-390
ListenQueryPing(msg) ==
  /\ Serving
  /\ pc # "panic"
  /\ reply' = <<sendMessage(ResponsePing(msg), msg.ID)>>
  /\ lastMsg' = Handled(msg)
  /\ UNCHANGED <<msVars, rtVars, idVars, itVars>>

(***************************************************************************)
(* Goroutines.  The listen loop runs in a goroutine of its own (go          *)
(* dht.listen()) beside the caller of Bootstrap, Store and Get.  Here the   *)
(* two run the code that touches the state they share, statement by         *)
(* statement: addNode (either goroutine) and the send of a query in the     *)
(* send loop of iterate (the caller).                                       *)
(***************************************************************************)

Threads == {"listen", "caller"}

ThreadIdle == [pc |-> "idle", op |-> None, node |-> None, out |-> None, tmp |-> 0]

\* the goroutine t goes to pc, its other locals as they are
At(t, where) == thr' = [thr EXCEPT ![t].pc = where]

\* the goroutine t returns from addNode: the deferred mutex.Unlock() runs
Return(t) ==
  /\ thr' = [thr EXCEPT ![t] = ThreadIdle]
  /\ mutex' = None

\* what the goroutines leave alone
ConcFrame ==
  /\ workload = "concurrent"
  /\ UNCHANGED <<msVars, undefIdx, lastAdd, itVars, listenVars, codecVars, fedVars,
                 workload>>

\* line 298: addNode(node) is called
ConcAddNode(t, node) ==
  /\ ConcFrame
  /\ thr[t].pc = "idle"
  /\ thr' = [thr EXCEPT ![t] = [ThreadIdle EXCEPT !.pc = "lock",
                                                   !.op = "addNode",
                                                   !.node = node]]
  /\ UNCHANGED <<rt, mutex, idVars>>

\* line 299: dht.ht.mutex.Lock()
ConcLock(t) ==
  /\ ConcFrame
  /\ thr[t].pc = "lock"
  /\ mutex = None
  /\ mutex' = t
  /\ At(t, "check")
  /\ UNCHANGED <<rt, idVars>>

\* lines 302-312 and 335-339: the node is known, or its bucket has room, or
\* the bucket is full
ConcCheck(t) ==
  /\ ConcFrame
  /\ thr[t].pc = "check"
  /\ IF PingChoices(rt, thr[t].node) = {None}
       THEN /\ rt' = addNode(rt, thr[t].node, None)
            /\ Return(t)
       ELSE /\ At(t, "ping")
            /\ UNCHANGED <<rt, mutex>>
  /\ UNCHANGED idVars

\* lines 316-321: sendMessage(query, dht.msgCounter, true), the Ping to the
\* head of the bucket
ConcPingSend(t) ==
  /\ ConcFrame
  /\ thr[t].pc = "ping"
  /\ Len(sentIds) < MaxMsg
  /\ sentIds' = Append(sentIds, msgCounter)
  /\ \E out \in {"senderr", "ok"} :
       thr' = [thr EXCEPT ![t].pc = "inc", ![t].out = out]
  /\ UNCHANGED <<rt, mutex, msgCounter>>

\* line 205: sendMessage(q, dht.msgCounter, true) in the send loop of iterate
ConcSendQuery(t, q) ==
  /\ ConcFrame
  /\ t = "caller"
  /\ thr[t].pc = "idle"
  /\ Len(sentIds) < MaxMsg
  /\ sentIds' = Append(sentIds, msgCounter)
  /\ \E out \in SendOutcomes :
       thr' = [thr EXCEPT ![t] = [ThreadIdle EXCEPT !.pc = "inc", !.op = "send",
                                                    !.node = q, !.out = out]]
  /\ UNCHANGED <<rt, mutex, msgCounter>>

\* lines 206 and 322: dht.msgCounter++, the read
ConcIncRead(t) ==
  /\ ConcFrame
  /\ thr[t].pc = "inc"
  /\ thr' = [thr EXCEPT ![t].pc = "incw", ![t].tmp = msgCounter]
  /\ UNCHANGED <<rt, mutex, msgCounter, sentIds>>

\* lines 206 and 322: dht.msgCounter++, the write
ConcIncWrite(t) ==
  /\ ConcFrame
  /\ thr[t].pc = "incw"
  /\ msgCounter' = thr[t].tmp + 1
  /\ IF thr[t].op = "addNode"
       THEN At(t, IF thr[t].out = "ok" THEN "await" ELSE "evict")
       ELSE IF thr[t].out = TimedOut
         THEN At(t, "remove")
         ELSE thr' = [thr EXCEPT ![t] = ThreadIdle]
  /\ UNCHANGED <<rt, mutex, sentIds>>

\* lines 323-325: the Ping could not be sent
ConcEvict(t) ==
  /\ ConcFrame
  /\ thr[t].pc = "evict"
  /\ rt' = addNode(rt, thr[t].node, "senderr")
  /\ Return(t)
  /\ UNCHANGED idVars

\* lines 327-333: select on the channel of the Ping and time.After(tPingMax)
ConcAwait(t) ==
  /\ ConcFrame
  /\ thr[t].pc = "await"
  /\ \E ping \in {"pong", "timeout"} : rt' = addNode(rt, thr[t].node, ping)
  /\ Return(t)
  /\ UNCHANGED idVars

\* lines 211-213: dht.ht.removeNode(q.Receiver.ID), under the mutex of the
\* routing table
ConcRemoveNode(t) ==
  /\ ConcFrame
  /\ thr[t].pc = "remove"
  /\ mutex = None
  /\ rt' = removeNode(rt, thr[t].node)
  /\ thr' = [thr EXCEPT ![t] = ThreadIdle]
  /\ UNCHANGED <<mutex, idVars>>

(***************************************************************************)
(* The codec of the messages.  serializeMessage and deserializeMessage are  *)
(* used by TestNetMsg; the frame is a 4-byte big-endian length followed by  *)
(* the typed payload.  A byte is a number in 0 .. 255, a nullable field is  *)
(* a sequence of at most one element.                                       *)
(***************************************************************************)

MessageTypes ==
  <<"QueryPing", "QueryStore", "QueryFindNode", "QueryFindValue",
    "ResponsePing", "ResponseFindNode", "ResponseFindValue">>

TagOf(type) == CHOOSE i \in 1 .. Len(MessageTypes) : MessageTypes[i] = type

ErrorTexts == <<RemoteError, TimedOut>>

Optional(S) == {<<>>} \cup {<<x>> : x \in S}

\* the fields every message has
Headers ==
  [ID : 0 .. MaxMsgId, IsResponse : BOOLEAN, Sender : Optional({SelfID}),
   Receiver : Optional(Net), Error : Optional(Errors)]

\* a message of the given type with the given payload
Message(h, type, target, key, d, closest, value) ==
  [Type |-> type, ID |-> h.ID, IsResponse |-> h.IsResponse, Sender |-> h.Sender,
   Receiver |-> h.Receiver, Error |-> h.Error, Target |-> target, Key |-> key,
   Data |-> d, Closest |-> closest, Value |-> value]

\* the well-formed messages: every type with the payload of that type
Messages ==
  {Message(h, type, <<>>, <<>>, <<>>, <<>>, <<>>) :
     h \in Headers, type \in {"QueryPing", "ResponsePing"}}
  \cup {Message(h, type, <<t>>, <<>>, <<>>, <<>>, <<>>) :
     h \in Headers, type \in {"QueryFindNode", "QueryFindValue"}, t \in Net}
  \cup {Message(h, "QueryStore", <<>>, <<key>>, <<d>>, <<>>, <<>>) :
     h \in Headers, key \in StoreKeys, d \in Values}
  \cup {Message(h, "ResponseFindNode", <<>>, <<>>, <<>>, closest, <<>>) :
     h \in Headers, closest \in ClosestLists}
  \cup {Message(h, "ResponseFindValue", <<>>, <<>>, <<>>, closest, value) :
     h \in Headers, closest \in ClosestLists, value \in Optional(Values)}

\* n in w bytes, the most significant first
RECURSIVE BigEndian(_, _)
BigEndian(n, w) ==
  IF w = 0 THEN <<>> ELSE Append(BigEndian(n \div 256, w - 1), n % 256)

RECURSIVE FromBigEndian(_)
FromBigEndian(bytes) ==
  IF bytes = <<>> THEN 0
  ELSE FromBigEndian(SubSeq(bytes, 1, Len(bytes) - 1)) * 256 + bytes[Len(bytes)]

\* the bytes of a value
BytesOf(v) == IF v = "v1" THEN <<118, 49>> ELSE <<118, 50>>

\* a nullable field: a byte that tells whether it is there, then its bytes
EncOptional(field, bytes) == IF field = <<>> THEN <<0>> ELSE <<1>> \o bytes

EncNode(field) == EncOptional(field, IF field = <<>> THEN <<>> ELSE <<field[1]>>)

EncError(field) ==
  EncOptional(field, IF field = <<>> THEN <<>>
                     ELSE <<CHOOSE i \in 1 .. Len(ErrorTexts) : ErrorTexts[i] = field[1]>>)

EncValue(field) ==
  EncOptional(field, IF field = <<>> THEN <<>>
                     ELSE <<Len(BytesOf(field[1]))>> \o BytesOf(field[1]))

\* the payload of the frame: the type tag, the header, the data of the type
Payload(msg) ==
  <<TagOf(msg.Type), IF msg.IsResponse THEN 1 ELSE 0>>
  \o BigEndian(msg.ID, 8)
  \o EncNode(msg.Sender) \o EncNode(msg.Receiver) \o EncError(msg.Error)
  \o CASE msg.Type \in {"QueryFindNode", "QueryFindValue"} -> msg.Target
       [] msg.Type = "QueryStore" -> msg.Key \o EncValue(msg.Data)
       [] msg.Type = "ResponseFindNode" -> <<Len(msg.Closest)>> \o msg.Closest
       [] msg.Type = "ResponseFindValue" ->
            <<Len(msg.Closest)>> \o msg.Closest \o EncValue(msg.Value)
       [] OTHER -> <<>>

\* a frame whose payload leaves out the error
serializeMessageNoError(msg) ==
  BigEndian(Len(Payload([msg EXCEPT !.Error = <<>>])), 4)
  \o Payload([msg EXCEPT !.Error = <<>>])

\* the frame: the length of the payload in 4 bytes, then the payload
serializeMessage(msg) == BigEndian(Len(Payload(msg)), 4) \o Payload(msg)

\* readers: the field at the head of the bytes, and the bytes after it
Drop(bytes, n) == SubSeq(bytes, n + 1, Len(bytes))

ReadOptional(bytes, n) ==
  IF bytes[1] = 0 THEN [v |-> <<>>, rest |-> Drop(bytes, 1)]
  ELSE [v |-> SubSeq(bytes, 2, n + 1), rest |-> Drop(bytes, n + 1)]

ReadError(bytes) ==
  LET r == ReadOptional(bytes, 1)
  IN  [r EXCEPT !.v = IF r.v = <<>> THEN <<>> ELSE <<ErrorTexts[r.v[1]]>>]

ReadValue(bytes) ==
  IF bytes[1] = 0 THEN [v |-> <<>>, rest |-> Drop(bytes, 1)]
  ELSE [v |-> <<CHOOSE v \in Values : BytesOf(v) = SubSeq(bytes, 3, 2 + bytes[2])>>,
        rest |-> Drop(bytes, 2 + bytes[2])]

ReadNodes(bytes) ==
  [v |-> SubSeq(bytes, 2, 1 + bytes[1]), rest |-> Drop(bytes, 1 + bytes[1])]

\* the message of a payload; the decoder dispatches on the type tag
ParsePayload(p) ==
  LET type == MessageTypes[p[1]]
      sender == ReadOptional(Drop(p, 10), 1)
      receiver == ReadOptional(sender.rest, 1)
      error == ReadError(receiver.rest)
      h == [ID |-> FromBigEndian(SubSeq(p, 3, 10)), IsResponse |-> p[2] = 1,
            Sender |-> sender.v, Receiver |-> receiver.v, Error |-> error.v]
      body == error.rest
  IN  CASE type \in {"QueryFindNode", "QueryFindValue"} ->
             Message(h, type, <<body[1]>>, <<>>, <<>>, <<>>, <<>>)
        [] type = "QueryStore" ->
             Message(h, type, <<>>, <<body[1]>>, ReadValue(Drop(body, 1)).v,
                     <<>>, <<>>)
        [] type = "ResponseFindNode" ->
             Message(h, type, <<>>, <<>>, <<>>, ReadNodes(body).v, <<>>)
        [] type = "ResponseFindValue" ->
             Message(h, type, <<>>, <<>>, <<>>, ReadNodes(body).v,
                     ReadValue(ReadNodes(body).rest).v)
        [] OTHER -> Message(h, type, <<>>, <<>>, <<>>, <<>>, <<>>)

\* the first frame of the stream: an error if the frame is truncated or its
\* type tag is unknown, the message of its payload otherwise
deserializeMessage(stream) ==
  LET n == FromBigEndian(SubSeq(stream, 1, 4))
  IN  IF Len(stream) < 4 \/ Len(stream) < 4 + n \/ n = 0
        THEN [err |-> TRUE, msg |-> <<>>, rest |-> <<>>]
      ELSE IF stream[5] \notin 1 .. Len(MessageTypes)
        THEN [err |-> TRUE, msg |-> <<>>, rest |-> Drop(stream, 4 + n)]
      ELSE [err |-> FALSE, msg |-> <<ParsePayload(SubSeq(stream, 5, 4 + n))>>,
            rest |-> Drop(stream, 4 + n)]

CodecIdle ==
  /\ netMsg = <<>>
  /\ conn = <<>>
  /\ deserialized = <<>>

\* TestNetMsg, lines 28-33: serialized, err := serializeMessage(msg);
\* conn.Write(serialized)
Serialize ==
  /\ workload = "codec"
  /\ netMsg # <<>> /\ conn = <<>> /\ deserialized = <<>>
  /\ conn' = conn \o serializeMessage(netMsg[1])
  /\ UNCHANGED <<netMsg, deserialized>>
  /\ UNCHANGED <<msVars, rtVars, idVars, itVars, listenVars, concVars, fedVars,
                 workload>>

\* TestNetMsg, lines 35-38: deserialized, err := deserializeMessage(&conn)
Deserialize ==
  /\ workload = "codec"
  /\ conn # <<>>
  /\ LET r == deserializeMessage(conn)
     IN  /\ deserialized' = <<r>>
         /\ conn' = r.rest
  /\ UNCHANGED netMsg
  /\ UNCHANGED <<msVars, rtVars, idVars, itVars, listenVars, concVars, fedVars,
                 workload>>

(***************************************************************************)
(* Two nodes.  The node bootstraps to a peer that runs the same program:    *)
(* what the node sends reaches the listen loop of the peer, and what the    *)
(* peer answers arrives on the channel the node reads.  The peer knows no   *)
(* node but this one, so no bucket of its table is ever full and its        *)
(* addNode sends no Ping.                                                   *)
(***************************************************************************)

Peers == Net \ {SelfID}

FedIdle ==
  /\ peerId = 0
  /\ peerRt = [i \in Buckets |-> <<>>]
  /\ peerData = EmptyMap
  /\ inbox = <<>>
  /\ outbox = <<>>

\* a step of the node with the peer there
Federated == workload = "federation" /\ UNCHANGED <<workload, concVars, codecVars>>

\* lines 175-199: the query of a walk of kind t to receiver
QueryOf(t, receiver, id, target) ==
  [Type |-> IF t = "iterateFindValue" THEN "QueryFindValue" ELSE "QueryFindNode",
   Sender |-> SelfID, Receiver |-> receiver, ID |-> id, Target |-> target]

\* lines 276-284: the QueryStore messages as they are sent, the first with
\* the id first
StoreMessages(sent, first) ==
  [i \in 1 .. Len(sent) |->
     [Type |-> "QueryStore", Sender |-> SelfID, Receiver |-> sent[i].Receiver,
      ID |-> first + i - 1, Key |-> sent[i].Key, Data |-> sent[i].Data]]

\* the messages that reach the peer: those it is the receiver of
ToPeer(msgs) == SelectSeq(msgs, LAMBDA m : m.Receiver = peerId)

\* the node sends the next query of the round; the peer is live
FedIterSend ==
  /\ Federated
  /\ IterSendTo("ok")
  /\ inbox' = inbox \o ToPeer(<<QueryOf(itT, Head(queries), msgCounter, itTarget)>>)
  /\ UNCHANGED <<peerId, peerRt, peerData, outbox>>

\* the node reads the response to the query it is waiting for
FedIterResult ==
  /\ Federated
  /\ outbox # <<>>
  /\ Head(outbox).ID \in ToSet(sentIds)
  /\ IterResultOf(Head(outbox))
  /\ outbox' = Tail(outbox)
  /\ UNCHANGED <<peerId, peerRt, peerData, inbox>>

\* the end of a round of the node; the QueryStore messages of a finished
\* Store walk are on their way
FedIterRoundEnd ==
  /\ Federated
  /\ IterRoundEndStep
  /\ inbox' = inbox \o ToPeer(StoreMessages(storeSent', msgCounter))
  /\ UNCHANGED <<peerId, peerRt, peerData, outbox>>

\* lines 351-362, on the peer
PeerQueryFindNode ==
  /\ Federated
  /\ inbox # <<>>
  /\ Head(inbox).Type = "QueryFindNode"
  /\ \E msg \in {Head(inbox)} :
       \E table \in {addNodeOf(peerId, peerRt, msg.Sender, None)} :
         \E closest \in {getClosestContactsOf(peerId, table, K, msg.Target,
                                              {msg.Sender})} :
           /\ peerRt' = table
           /\ outbox' = Append(outbox,
                               sendMessage([ResponseFindNode(msg, closest)
                                              EXCEPT !.Sender = peerId],
                                           msg.ID))
  /\ inbox' = Tail(inbox)
  /\ UNCHANGED <<msVars, rtVars, idVars, itVars, listenVars, peerId, peerData>>

\* lines 381-384, on the peer
PeerQueryStore ==
  /\ Federated
  /\ inbox # <<>>
  /\ Head(inbox).Type = "QueryStore"
  /\ peerRt' = addNodeOf(peerId, peerRt, Head(inbox).Sender, None)
  /\ peerData' = MapSet(peerData, Head(inbox).Key, Head(inbox).Data)
  /\ inbox' = Tail(inbox)
  /\ UNCHANGED <<msVars, rtVars, idVars, itVars, listenVars, peerId, outbox>>

\* a call of Store is made only while ids are left for its two messages
FedStore(d) ==
  /\ msgCounter + 2 <= MaxMsg
  /\ DhtStore(d)

(***************************************************************************)
(* Specifications                                                          *)
(***************************************************************************)

\* the values and keys of the node's own Store and Get calls
LookupValues == {"v1"}
LookupKeys == {KeyOf("v1")}

DhtInit ==
  /\ rt = [i \in Buckets |-> <<>>]
  /\ undefIdx \in Buckets
  /\ lastAdd = NoAdd
  /\ pc = "idle"
  /\ bootPending = <<>>
  /\ itT = None
  /\ itTarget = NoId
  /\ itData = None
  /\ sl = <<>>
  /\ contacted = {}
  /\ closestNode = NoId
  /\ queries = <<>>
  /\ chans = <<>>
  /\ mergeList = <<>>
  /\ mergeIdx = 0
  /\ itRet = NoReturn
  /\ storeSent = <<>>
  /\ lastResult = NoResult
  /\ reply = <<>>
  /\ lastMsg = NoMsg
  /\ msgCounter = 0
  /\ sentIds = <<>>
  /\ mutex = None
  /\ thr = [t \in Threads |-> ThreadIdle]

Init == StoreInit /\ DhtInit /\ CodecIdle /\ FedIdle /\ workload \in {"serve", "lookup"}

Next ==
  \/ \E nodes \in SeqsUpTo(Net, MaxBoot) : Bootstrap(nodes)
  \/ BootstrapAddNode
  \/ BootstrapIterate
  \/ \E d \in LookupValues : DhtStore(d)
  \/ \E key \in LookupKeys : DhtGet(key)
  \/ IterBegin
  \/ IterSend
  \/ IterResult
  \/ IterAddNode
  \/ IterAppend
  \/ IterRoundEnd
  \/ \E msg \in QueriesFindNode : ListenQueryFindNode(msg)
  \/ \E msg \in QueriesFindValue : ListenQueryFindValue(msg)
  \/ \E msg \in QueriesStore : ListenQueryStore(msg)
  \/ \E msg \in QueriesPing : ListenQueryPing(msg)

Spec == Init /\ [][Next]_vars

\* the store on its own, the node otherwise at rest
MsInit == StoreInit /\ DhtInit /\ CodecIdle /\ FedIdle /\ undefIdx = 0 /\ workload = "serve"

MsNext ==
  \/ \E key \in StoreKeys, value \in Values, expiration \in Instants,
        publisher \in BOOLEAN : MsStore(key, value, expiration, publisher)
  \/ \E key \in StoreKeys : MsRetrieve(key)
  \/ \E key \in StoreKeys : MsDelete(key)
  \/ MsGetAllKeysForRefresh
  \/ MsExpireKeys
  \/ Tick

SpecStore == MsInit /\ [][MsNext]_vars

\* the goroutines of the node on their own: the listen loop and one caller
ConcInit == StoreInit /\ DhtInit /\ CodecIdle /\ FedIdle /\ workload = "concurrent"

ConcNext ==
  \/ \E t \in Threads, node \in Net : ConcAddNode(t, node)
  \/ \E t \in Threads : ConcLock(t)
  \/ \E t \in Threads : ConcCheck(t)
  \/ \E t \in Threads : ConcPingSend(t)
  \/ \E t \in Threads, q \in Net : ConcSendQuery(t, q)
  \/ \E t \in Threads : ConcIncRead(t)
  \/ \E t \in Threads : ConcIncWrite(t)
  \/ \E t \in Threads : ConcEvict(t)
  \/ \E t \in Threads : ConcAwait(t)
  \/ \E t \in Threads : ConcRemoveNode(t)

SpecConc == ConcInit /\ [][ConcNext]_vars

\* TestNetMsg, for every well-formed message
CodecInit ==
  /\ StoreInit /\ DhtInit /\ FedIdle /\ undefIdx = 0 /\ workload = "codec"
  /\ netMsg \in {<<m>> : m \in Messages}
  /\ conn = <<>>
  /\ deserialized = <<>>

CodecNext == Serialize \/ Deserialize

SpecCodec == CodecInit /\ [][CodecNext]_vars

\* the node and its peer.  The goroutine of a call runs the call to its end
\* and the peer is live: no step of a call in progress and no message in the
\* inbox of the peer waits for ever.  The peer excludes the sender from the
\* closest contacts it returns and knows no other node, so the node has no
\* contact to add when it merges a response.
FedInit ==
  /\ StoreInit /\ DhtInit /\ CodecIdle /\ workload = "federation"
  /\ peerId \in Peers
  /\ peerRt = [i \in Buckets |-> <<>>]
  /\ peerData = EmptyMap
  /\ inbox = <<>>
  /\ outbox = <<>>

FedCall ==
  \/ BootstrapAddNode
  \/ BootstrapIterate
  \/ IterBegin
  \/ FedIterSend
  \/ FedIterResult
  \/ IterAppend
  \/ FedIterRoundEnd

FedPeer ==
  \/ PeerQueryFindNode
  \/ PeerQueryStore

FedNext ==
  \/ Bootstrap(<<peerId>>)
  \/ \E d \in Values : FedStore(d)
  \/ BootstrapAddNode
  \/ BootstrapIterate
  \/ IterBegin
  \/ FedIterSend
  \/ FedIterResult
  \/ IterAppend
  \/ FedIterRoundEnd
  \/ PeerQueryFindNode
  \/ PeerQueryStore

\* a step of a call changes one of the locals in the subscript, a step of the
\* peer its inbox
SpecFed ==
  /\ FedInit /\ [][FedNext]_vars
  /\ WF_<<pc, bootPending, sl, contacted, queries, chans, mergeIdx, msgCounter,
          outbox>>(FedCall)
  /\ WF_<<peerRt, peerData, inbox, outbox>>(FedPeer)

(***************************************************************************)
(* Claims about the routing table and iterate, checked under Spec          *)
(***************************************************************************)

\* the last call of addNode found its bucket full and the node new
LastAddFull ==
  /\ lastAdd.called
  /\ Len(lastAdd.bucket) = K
  /\ ~Contains(lastAdd.bucket, lastAdd.node)

\* C1 (RT-2): every bucket of the routing table holds at most k contacts.
C1_BucketAtMostK == \A i \in Buckets : Len(rt[i]) <= K

\* addNode has just gone through the full-bucket branch and evicted the head
C1_Witness ==
  /\ LastAddFull
  /\ lastAdd.ping \in {"senderr", "timeout"}
  /\ rt[lastAdd.index] # lastAdd.bucket
  /\ Len(rt[lastAdd.index]) = K

\* C2: the node's own id never appears in any bucket.
C2_SelfNeverInBucket == \A i \in Buckets : ~Contains(rt[i], SelfID)

\* C3 (RT-3): after addNode(c) with c.id # Self.id, c is in the bucket of
\* its index, or that bucket was full and its head answered the Ping; and
\* when the bucket was full and the Ping failed to be sent or timed out, the
\* head is gone and c is the tail.
C3_AddedOrHeadAnswered ==
  (lastAdd.called /\ lastAdd.node # SelfID) =>
    /\ lastAdd.index = HighBit(Distance(SelfID, lastAdd.node))
    /\ \/ Contains(rt[lastAdd.index], lastAdd.node)
       \/ LastAddFull /\ lastAdd.ping = "pong"
    /\ (LastAddFull /\ lastAdd.ping \in {"senderr", "timeout"}) =>
         /\ rt[lastAdd.index] = Append(Tail(lastAdd.bucket), lastAdd.node)
         /\ ~Contains(rt[lastAdd.index], Head(lastAdd.bucket))

\* addNode of a peer has just found its bucket full and the Ping timed out
C3_Witness ==
  /\ LastAddFull
  /\ lastAdd.node # SelfID
  /\ lastAdd.ping = "timeout"
  /\ rt[lastAdd.index][K] = lastAdd.node

\* C4: addNode(c) of a c already in its bucket moves c to the tail; and when
\* the bucket is full and its head answers the Ping, c is discarded and the
\* head is moved to the tail.
C4_SeenMovesToTail ==
  lastAdd.called =>
    /\ Contains(lastAdd.bucket, lastAdd.node) =>
         rt[lastAdd.index] = Append(Without(lastAdd.bucket, lastAdd.node), lastAdd.node)
    /\ (LastAddFull /\ lastAdd.ping = "pong") =>
         rt[lastAdd.index] = Append(Tail(lastAdd.bucket), Head(lastAdd.bucket))

\* C8 (ITER-1): every call of iterate returns to its caller; a call that
\* panics never does.
C8_IterateNeverPanics == pc # "panic"

SortedByDistance(nodes, target) ==
  \A i \in 1 .. Len(nodes) : \A j \in 1 .. Len(nodes) :
    i < j => Distance(nodes[i], target) <= Distance(nodes[j], target)

NoDuplicates(nodes) ==
  \A i \in 1 .. Len(nodes) : \A j \in 1 .. Len(nodes) :
    i # j => nodes[i] # nodes[j]

\* a call of iterate(iterateFindNode) has returned
FindNodeReturned == itRet.t = "iterateFindNode"

\* C9 (ITER-2): what iterate(FindNode, target) returns is sorted by XOR
\* distance to target, ascending, and holds no id twice.
C9_FindNodeSortedNoDuplicates ==
  FindNodeReturned =>
    /\ SortedByDistance(itRet.closest, itTarget)
    /\ NoDuplicates(itRet.closest)

\* a FindNode walk has returned more nodes than it was seeded with, the
\* node's own id among them
C9_Witness ==
  /\ FindNodeReturned
  /\ Len(itRet.closest) > Alpha
  /\ Contains(itRet.closest, SelfID)

\* C10: what iterate(FindNode, target) returns has at most k addresses.
C10_FindNodeAtMostK == FindNodeReturned => Len(itRet.closest) <= K

\* every node of every bucket of a routing table
Contacts(table) == UNION {ToSet(table[i]) : i \in Buckets}

\* the step just taken read from a channel an envelope whose Error is e
ResultWithError(e) ==
  lastResult.handled /\ lastResult.via = "channel" /\ lastResult.Error = e

\* the step just taken read a value from a channel, which ended the walk
ValueReturned ==
  /\ lastResult.handled
  /\ lastResult.via = "channel"
  /\ lastResult.Error = None
  /\ lastResult.Value # None

\* C11 (cache seeding): when iterate(FindValue, key) has obtained the value
\* from a peer and an address seen during the walk did not return it, a
\* Store of (key, value) has been sent to the closest such address.
C11_ValueStoredAtClosestOther ==
  (ValueReturned /\ lastResult.other # <<>>) =>
    \E i \in 1 .. Len(storeSent) :
      /\ storeSent[i].Receiver = lastResult.other[1]
      /\ storeSent[i].Key = itTarget
      /\ storeSent[i].Data = lastResult.Value

\* C16: when the envelope read from the channel of a queried address has an
\* error, that address is removed from the shortlist of the walk, the closest
\* list of the envelope is not merged and the routing table is left as it was.
C16_RemoteErrorRemovesQueried ==
  ResultWithError(RemoteError) =>
    /\ sl = RemoveNode(lastResult.sl, lastResult.peer)
    /\ rt = lastResult.rt

\* C17: a query of a round whose response does not arrive in time, be it that
\* sendMessage fails with the timeout or that the channel delivers it, has
\* its receiver removed from the routing table, and the round goes on.
C17_TimeoutRemovesFromTable ==
  (lastResult.handled /\ lastResult.Error = TimedOut) =>
    /\ lastResult.peer \notin Contacts(rt)
    /\ pc \in {"send", "merge"}

\* C18: after the listen loop has handled a query of any type, its sender is
\* in the routing table, unless the sender's bucket was full with a head that
\* answered the Ping.
C18_SenderAddedForEveryQuery ==
  lastMsg.handled =>
    \/ lastMsg.msg.Sender \in Contacts(rt)
    \/ /\ LastAddFull
       /\ lastAdd.node = lastMsg.msg.Sender
       /\ lastAdd.ping = "pong"

\* C13: what the listen loop sends for a query: one envelope, a response of
\* the type that answers the query, to the query's sender and with the
\* query's envelope id, for QueryFindNode, QueryFindValue and QueryPing; no
\* envelope for QueryStore.
ResponseTypeOf(type) ==
  IF type = "QueryFindNode" THEN "ResponseFindNode"
  ELSE IF type = "QueryFindValue" THEN "ResponseFindValue"
  ELSE "ResponsePing"

C13_OneMatchingReply ==
  lastMsg.handled =>
    IF lastMsg.msg.Type = "QueryStore"
      THEN reply = <<>>
      ELSE /\ Len(reply) = 1
           /\ reply[1].IsResponse
           /\ reply[1].Type = ResponseTypeOf(lastMsg.msg.Type)
           /\ reply[1].Receiver = lastMsg.msg.Sender
           /\ reply[1].ID = lastMsg.msg.ID

\* each of the three answered queries has been answered, with an envelope id
\* other than the zero value; here a Ping from a peer
C13_Witness ==
  /\ lastMsg.handled
  /\ lastMsg.msg.Type = "QueryPing"
  /\ lastMsg.msg.Sender # SelfID
  /\ lastMsg.msg.ID = MaxMsgId
  /\ Len(reply) = 1

(***************************************************************************)
(* Claims about the federation of two nodes, checked under SpecFed         *)
(***************************************************************************)

PeerHas(d) == KeyOf(d) \in DOMAIN peerData /\ peerData[KeyOf(d)] = d

\* Store(d) has been called on the node, which has the peer in its table
PutBegun(d) ==
  /\ pc = "begin"
  /\ itT = "iterateStore"
  /\ itData = d
  /\ peerId \in Contacts(rt)

\* a Store walk has just ended: one QueryStore with the key and the data was
\* sent to each of the first k nodes of the final shortlist, and to no more
StoreFanOut ==
  (pc = "idle" /\ itRet.t = "iterateStore" /\ lastResult.ended) =>
    LET final == Take(lastResult.final, K) IN
    /\ Len(storeSent) = Len(final)
    /\ Len(storeSent) <= K
    /\ \A i \in 1 .. Len(final) :
         /\ storeSent[i].Type = "QueryStore"
         /\ storeSent[i].Receiver = final[i]
         /\ storeSent[i].Key = KeyOf(itData)
         /\ storeSent[i].Data = itData

\* the QueryStore messages that have not reached the listen loop of the peer
Pending == {inbox[i].Key : i \in {j \in 1 .. Len(inbox) : inbox[j].Type = "QueryStore"}}

\* the peer holds the pair of every QueryStore that was sent to it and that
\* its listen loop has received
StoredOnReceipt ==
  \A i \in 1 .. Len(storeSent) :
    (storeSent[i].Receiver = peerId /\ storeSent[i].Key \notin Pending)
      => PeerHas(storeSent[i].Data)

\* C12: when the node has bootstrapped to a live peer, Store(d) on the node
\* leads to the peer's store holding d under the key of d; the Store walk
\* sends a QueryStore with the key and the data to each of the first k nodes
\* of the final shortlist and to no more, and the listen loop of the peer
\* stores the pair when it receives it.
C12_PutReachesPeer ==
  /\ \A d \in Values : PutBegun(d) ~> PeerHas(d)
  /\ [](StoreFanOut /\ StoredOnReceipt)

\* a Store walk of the node has ended with its one QueryStore sent to the
\* peer, and the peer holds the pair
C12_Witness ==
  /\ pc = "idle"
  /\ itRet.t = "iterateStore"
  /\ Len(storeSent) = 1
  /\ storeSent[1].Receiver = peerId
  /\ PeerHas(storeSent[1].Data)
  /\ peerId \in Contacts(rt)

(***************************************************************************)
(* Claims about the goroutines, checked under SpecConc                     *)
(***************************************************************************)

\* C15: the mutex of the routing table is never held while the answer to the
\* liveness Ping is awaited, so that no other goroutine waits for the mutex
\* as long as the Ping is outstanding.
C15_MutexFreeWhileAwaitingPing ==
  \A t \in Threads : thr[t].pc = "await" => mutex # t

\* C19: the envelope ids the node gives to its requests are issued
\* monotonically: in the order of the sends each is greater than the ones
\* before it, so no two requests carry the same id.
C19_EnvelopeIdsIncrease ==
  \A i \in 1 .. Len(sentIds) : \A j \in 1 .. Len(sentIds) :
    i < j => sentIds[i] < sentIds[j]

(***************************************************************************)
(* Claims about the codec, checked under SpecCodec                         *)
(***************************************************************************)

\* C14 (CODEC-1): deserializeMessage applied to the bytes serializeMessage
\* produced for a well-formed message m returns, without an error, a message
\* equal to m in every field: type, receiver, sender, id, response flag,
\* error and payload.
C14_RoundTrip ==
  deserialized # <<>> =>
    /\ ~deserialized[1].err
    /\ deserialized[1].msg = netMsg
    /\ \A f \in DOMAIN netMsg[1] : deserialized[1].msg[1][f] = netMsg[1][f]

\* the message of TestNetMsg has been through the codec: a QueryFindNode to
\* a receiver whose id is also the target, no sender, no error
C14_Witness ==
  /\ deserialized # <<>>
  /\ netMsg[1].Type = "QueryFindNode"
  /\ netMsg[1].Receiver # <<>>
  /\ netMsg[1].Target = netMsg[1].Receiver
  /\ netMsg[1].Sender = <<>>
  /\ netMsg[1].Error = <<>>
  /\ ~netMsg[1].IsResponse

(***************************************************************************)
(* Claims about MemoryStore, checked under SpecStore                       *)
(***************************************************************************)

\* C5 (LS-1): a key that has been stored, and since then neither deleted
\* nor met by a sweep at or after its expiration, is retrieved with the
\* value of its last Store.
C5_StoredUntilDeleteOrSweep ==
  \A k \in msLive : k \in DOMAIN data /\ data[k] = msPut[k].value

\* a sweep has just run strictly between the Store of a key and its
\* expiration, and the key is still owed
C5_Witness ==
  /\ msLast.op = "ExpireKeys"
  /\ \E k \in msLive : msPut[k].at < msLast.at /\ msLast.at < msPut[k].expiration

\* C6 (LS-2) as stated: after ExpireKeys every entry with expire-at <= now
\* is gone and every entry with expire-at > now is kept unchanged.
C6_SweepRemovesAtOrBefore ==
  msLast.op = "ExpireKeys" =>
    \A k \in DOMAIN msLast.data :
      IF msLast.expireMap[k] <= msLast.at
        THEN k \notin DOMAIN data
        ELSE k \in DOMAIN data /\ data[k] = msLast.data[k]

\* C6 amended: after ExpireKeys every entry with expire-at < now is gone and
\* every entry with expire-at >= now (the instant itself included) is kept
\* with its value unchanged.
C6_SweepRemovesStrictlyBefore ==
  msLast.op = "ExpireKeys" =>
    \A k \in DOMAIN msLast.data :
      IF msLast.expireMap[k] < msLast.at
        THEN k \notin DOMAIN data
        ELSE k \in DOMAIN data /\ data[k] = msLast.data[k]

\* a sweep has just removed one entry and kept another whose expire-at is
\* the instant of the sweep
C6_Witness ==
  /\ msLast.op = "ExpireKeys"
  /\ \E k1, k2 \in DOMAIN msLast.data :
       /\ msLast.expireMap[k1] = msLast.at /\ k1 \in DOMAIN data
       /\ msLast.expireMap[k2] < msLast.at /\ k2 \notin DOMAIN data

\* C7 as stated: every entry has refresh-at <= expire-at.
C7_RefreshBeforeExpire ==
  \A k \in DOMAIN data : refreshMap[k] <= expireMap[k]

\* C7 amended: every entry has refresh-at = (instant of its Store) + one
\* hour and expire-at as supplied, so refresh-at <= expire-at holds for the
\* entries whose supplied expire-at was at least one hour after the Store.
C7_RefreshBeforeExpireWhenHourAhead ==
  \A k \in DOMAIN data :
    /\ refreshMap[k] = msPut[k].at + Hour
    /\ expireMap[k] = msPut[k].expiration
    /\ (msPut[k].expiration >= msPut[k].at + Hour => refreshMap[k] <= expireMap[k])

\* an entry stored after the clock has moved, with an expire-at more than an
\* hour ahead
C7_Witness ==
  \E k \in DOMAIN data :
    msPut[k].at > 0 /\ msPut[k].expiration > msPut[k].at + Hour

\* C20: the value map, the refresh-at map and the expire-at map hold exactly
\* the same keys in every reachable state of the store; in particular a
\* Delete(key) leaves no timer entry of key behind.
C20_MapsShareKeys ==
  /\ DOMAIN refreshMap = DOMAIN data
  /\ DOMAIN expireMap = DOMAIN data
  /\ (msLast.op = "Delete" =>
        msLast.key \notin (DOMAIN refreshMap) \cup (DOMAIN expireMap))

====
